---- MODULE Spec2Model ----
(***************************************************************************)
(* Model of client.py, the Arrow Flight smoke-test client of neo4j-arrow.  *)
(*                                                                         *)
(* The script is one sequential run.  Every remote call it makes is an     *)
(* interaction with the server, so the run is cut at the calls and at the  *)
(* pulls on the streams the calls return: the server's answers (the probe  *)
(* outcome, the items of each stream, a failure at any point) are the      *)
(* nondeterministic inputs.  A call that fails outright and a stream that  *)
(* fails before its first item reach the same handler of the script, so    *)
(* both are the error step taken with an empty `stream`.                   *)
(*                                                                         *)
(* Byte strings the script computes with (the credential, the header, the  *)
(* query) are sequences of byte values, so that base64 and the query text  *)
(* are computed rather than assumed.                                       *)
(***************************************************************************)
EXTENDS Integers, Sequences, FiniteSets, TLC

(***************************************************************************)
(* Bounds of the model.                                                    *)
(***************************************************************************)
MaxActions == 2      \* actions a server advertises
MaxRows == 2         \* records of an action stream of an arbitrary server
MaxFlights == 2      \* flights a server lists
MaxEndpoints == 2    \* endpoints of one flight
MaxChunks == 1       \* record batches of one do_get stream

ActionNames == {"cypherRead"}
RowVals == {101, 102}

(***************************************************************************)
(* Constants of the script.                                                *)
(***************************************************************************)
ProbeTimeout == 5

location_spec == <<"127.0.0.1", 9999>>
location == <<"192.168.1.42", 9999>>

\* b'neo4j:password'
credential == <<110, 101, 111, 52, 106, 58, 112, 97, 115, 115, 119, 111, 114, 100>>

\* b'authorization'
HeaderName == <<97, 117, 116, 104, 111, 114, 105, 122, 97, 116, 105, 111, 110>>

\* b'Basic '
BasicPrefix == <<66, 97, 115, 105, 99, 32>>

\* index of the base64 alphabet -> its character: A-Z a-z 0-9 + /
B64Char(i) ==
    IF i < 26 THEN 65 + i
    ELSE IF i < 52 THEN 97 + (i - 26)
    ELSE IF i < 62 THEN 48 + (i - 52)
    ELSE IF i = 62 THEN 43 ELSE 47

RECURSIVE b64encode(_)
b64encode(b) ==
    IF Len(b) = 0 THEN <<>>
    ELSE IF Len(b) = 1 THEN
        << B64Char(b[1] \div 4), B64Char((b[1] % 4) * 16), 61, 61 >>
    ELSE IF Len(b) = 2 THEN
        << B64Char(b[1] \div 4),
           B64Char((b[1] % 4) * 16 + b[2] \div 16),
           B64Char((b[2] % 16) * 4), 61 >>
    ELSE
        << B64Char(b[1] \div 4),
           B64Char((b[1] % 4) * 16 + b[2] \div 16),
           B64Char((b[2] % 16) * 4 + b[3] \div 64),
           B64Char(b[3] % 64) >> \o b64encode(SubSeq(b, 4, Len(b)))

NoOptions == <<>>

\* FlightCallOptions(headers=[(b'authorization', b'Basic ' + b64encode(...))])
AuthOptions == << <<HeaderName, BasicPrefix \o b64encode(credential)>> >>

\* "UNWIND range(1,3) AS n RETURN n"
action_spec ==
    <<"cypherRead",
      <<85, 78, 87, 73, 78, 68, 32, 114, 97, 110, 103, 101, 40, 49, 44, 51, 41,
        32, 65, 83, 32, 110, 32, 82, 69, 84, 85, 82, 78, 32, 110>> >>

\* "UNWIND range(1, 23) AS n RETURN n".encode('utf8')
action ==
    <<"cypherRead",
      <<85, 78, 87, 73, 78, 68, 32, 114, 97, 110, 103, 101, 40, 49, 44, 32, 50,
        51, 41, 32, 65, 83, 32, 110, 32, 82, 69, 84, 85, 82, 78, 32, 110>> >>

(***************************************************************************)
(* The server that answers the query faithfully: UNWIND range(lo, hi) AS n *)
(* RETURN n yields one record per n = lo .. hi, in that order.  A record   *)
(* is represented by its n.                                                *)
(***************************************************************************)
PosOf(s, c) == CHOOSE i \in 1..Len(s) : s[i] = c /\ \A j \in 1..(i - 1) : s[j] # c

RECURSIVE DigitsVal(_)
DigitsVal(s) ==
    IF Len(s) = 0 THEN 0
    ELSE LET d == s[Len(s)]
             r == DigitsVal(SubSeq(s, 1, Len(s) - 1))
         IN  IF d \in 48..57 THEN r * 10 + (d - 48) ELSE r

FaithfulAnswer(a) ==
    LET q == a[2]
        lo == DigitsVal(SubSeq(q, PosOf(q, 40) + 1, PosOf(q, 44) - 1))
        hi == DigitsVal(SubSeq(q, PosOf(q, 44) + 1, PosOf(q, 41) - 1))
    IN  [i \in 1..(hi - lo + 1) |-> lo + i - 1]

(***************************************************************************)
(* Errors wait_for_available can raise.                                    *)
(***************************************************************************)
ProbeErrors ==
    {"FlightUnauthenticatedError", "FlightTimedOutError",
     "FlightUnavailableError", "FlightInternalError"}

VARIABLES
    pc,          \* position of the script
    client,      \* the endpoint the FlightClient was built for
    faithful,    \* the server answers do_action with the query's true result
    probe,       \* outcome of wait_for_available ("none" before it)
    options,     \* the script's `options` (NoOptions until line 22)
    log,         \* remote calls issued, and how each ended
    stream,      \* items received so far on the stream being consumed
    actions,     \* the script's `actions`
    rows,        \* rows printed by the do_action loop
    flights,     \* the script's `flights`
    fi,          \* index in flights of the loop variable `flight`
    exit         \* exit status of the process (-1 while running)

vars == <<pc, client, faithful, probe, options, log, stream, actions, rows,
          flights, fi, exit>>

Call(op, opts, arg) ==
    [kind |-> "call", op |-> op, target |-> client, headers |-> opts, arg |-> arg]

Ev(kind, op) ==
    [kind |-> kind, op |-> op, target |-> client, headers |-> NoOptions, arg |-> <<>>]

Init ==
    /\ pc = "probe"
    /\ client = location
    /\ faithful \in BOOLEAN
    /\ probe = "none"
    /\ options = NoOptions
    /\ log = <<>>
    /\ stream = <<>>
    /\ actions = <<>>
    /\ rows = <<>>
    /\ flights = <<>>
    /\ fi = 0
    /\ exit = -1

(***************************************************************************)
(* The two ways the process ends abnormally.                               *)
(***************************************************************************)
\* sys.exit(1)
SysExit ==
    /\ pc' = "exited"
    /\ exit' = 1

\* an exception no handler catches: traceback, exit status 1
Uncaught ==
    /\ pc' = "raised"
    /\ exit' = 1

(***************************************************************************)
(* Lines 12-20: the connectivity probe.                                    *)
(***************************************************************************)
ProbeIsFatal_all(e) == TRUE

ProbeIsFatal_none(e) == FALSE

\* type(e) is not flight.FlightUnauthenticatedError
ProbeIsFatal(e) == e # "FlightUnauthenticatedError"

WaitForAvailable ==
    /\ pc = "probe"
    /\ \E r \in {"ok"} \cup ProbeErrors :
        /\ probe' = r
        /\ log' = log \o
              << Call("wait_for_available", NoOptions, <<ProbeTimeout>>),
                 Ev(IF r = "ok" THEN "end" ELSE "error", "wait_for_available") >>
        /\ IF r # "ok" /\ ProbeIsFatal(r)
              THEN SysExit
              ELSE pc' = "list_actions" /\ exit' = exit
    /\ UNCHANGED <<client, faithful, options, stream, actions, rows, flights, fi>>

(***************************************************************************)
(* Lines 22-32: the options, and the action listing.                       *)
(***************************************************************************)
ListActions ==
    /\ pc = "list_actions"
    /\ options' = AuthOptions
    /\ log' = Append(log, Call("list_actions", options', <<>>))
    /\ stream' = <<>>
    /\ pc' = "actions_iter"
    /\ UNCHANGED <<client, faithful, probe, actions, rows, flights, fi, exit>>

\* list(...) pulls the next action
ActionsItem ==
    /\ pc = "actions_iter"
    /\ Len(stream) < MaxActions
    /\ \E a \in ActionNames : stream' = Append(stream, a)
    /\ UNCHANGED <<pc, client, faithful, probe, options, log, actions, rows,
                   flights, fi, exit>>

ActionsEnd_emptyFatal ==
    /\ pc = "actions_iter"
    /\ actions' = stream
    /\ log' = Append(log, Ev("end", "list_actions"))
    /\ IF Len(stream) = 0 THEN SysExit ELSE pc' = "do_action" /\ exit' = exit
    /\ UNCHANGED <<client, faithful, probe, options, stream, rows, flights, fi>>

\* the listing is exhausted: actions is bound, its length or its items are
\* printed, and the script goes on to line 34 either way
ActionsEnd ==
    /\ pc = "actions_iter"
    /\ actions' = stream
    /\ log' = Append(log, Ev("end", "list_actions"))
    /\ pc' = "do_action"
    /\ UNCHANGED <<client, faithful, probe, options, stream, rows, flights, fi, exit>>

\* list_actions raises, at the call or while the list is built: line 26 is
\* in no try block
ActionsError ==
    /\ pc = "actions_iter"
    /\ log' = Append(log, Ev("error", "list_actions"))
    /\ Uncaught
    /\ UNCHANGED <<client, faithful, probe, options, stream, actions, rows,
                   flights, fi>>

(***************************************************************************)
(* Lines 34-41: the action invocation and its result stream.               *)
(***************************************************************************)
DoAction ==
    /\ pc = "do_action"
    /\ log' = Append(log, Call("do_action", options, action))
    /\ stream' = <<>>
    /\ pc' = "action_iter"
    /\ UNCHANGED <<client, faithful, probe, options, actions, rows, flights, fi, exit>>

\* the records the server may send next on the action stream
NextRows ==
    IF faithful
       THEN IF Len(stream) < Len(FaithfulAnswer(action))
               THEN {FaithfulAnswer(action)[Len(stream) + 1]}
               ELSE {}
       ELSE IF Len(stream) < MaxRows THEN RowVals ELSE {}

\* the stream may end here
RowsMayEnd == faithful => Len(stream) = Len(FaithfulAnswer(action))

ActionRow_break ==
    /\ pc = "action_iter"
    /\ \E r \in NextRows :
        /\ stream' = Append(stream, r)
        /\ rows' = Append(rows, r)
    /\ pc' = "list_flights"
    /\ UNCHANGED <<client, faithful, probe, options, log, actions, flights, fi, exit>>

\* for row in ...: print(row.body.to_pybytes())
ActionRow ==
    /\ pc = "action_iter"
    /\ \E r \in NextRows :
        /\ stream' = Append(stream, r)
        /\ rows' = Append(rows, r)
    /\ UNCHANGED <<pc, client, faithful, probe, options, log, actions, flights,
                   fi, exit>>

ActionEnd ==
    /\ pc = "action_iter"
    /\ RowsMayEnd
    /\ log' = Append(log, Ev("end", "do_action"))
    /\ pc' = "list_flights"
    /\ UNCHANGED <<client, faithful, probe, options, stream, actions, rows,
                   flights, fi, exit>>

ActionError_continue ==
    /\ pc = "action_iter"
    /\ ~faithful
    /\ log' = Append(log, Ev("error", "do_action"))
    /\ pc' = "list_flights"
    /\ UNCHANGED <<client, faithful, probe, options, stream, actions, rows,
                   flights, fi, exit>>

ActionError_retry ==
    /\ pc = "action_iter"
    /\ ~faithful
    /\ log' = Append(log, Ev("error", "do_action"))
    /\ IF Cardinality({i \in 1..Len(log) :
                          log[i].kind = "call" /\ log[i].op = "do_action"}) < 2
          THEN pc' = "do_action" /\ exit' = exit
          ELSE SysExit
    /\ UNCHANGED <<client, faithful, probe, options, stream, actions, rows,
                   flights, fi>>

\* except Exception as e: print(e); sys.exit(1)
ActionError ==
    /\ pc = "action_iter"
    /\ ~faithful
    /\ log' = Append(log, Ev("error", "do_action"))
    /\ SysExit
    /\ UNCHANGED <<client, faithful, probe, options, stream, actions, rows,
                   flights, fi>>

(***************************************************************************)
(* Lines 43-56: the flight listing and the fetch loop.                     *)
(***************************************************************************)
ListFlights ==
    /\ pc = "list_flights"
    /\ log' = Append(log, Call("list_flights", options, <<>>))
    /\ stream' = <<>>
    /\ pc' = "flights_iter"
    /\ UNCHANGED <<client, faithful, probe, options, actions, rows, flights, fi, exit>>

\* the k-th flight listed, with n endpoints: the server issues one ticket
\* per endpoint, <<k, j>> for endpoint j
FlightInfo(k, n) ==
    [descriptor |-> k, endpoints |-> [j \in 1..n |-> [ticket |-> <<k, j>>]]]

FlightsItem ==
    /\ pc = "flights_iter"
    /\ Len(stream) < MaxFlights
    /\ \E n \in 0..MaxEndpoints :
        stream' = Append(stream, FlightInfo(Len(stream) + 1, n))
    /\ UNCHANGED <<pc, client, faithful, probe, options, log, actions, rows,
                   flights, fi, exit>>

\* the listing is exhausted: with no flight the script prints and falls off
\* its end, otherwise the loop takes the first flight
FlightsEnd ==
    /\ pc = "flights_iter"
    /\ flights' = stream
    /\ log' = Append(log, Ev("end", "list_flights"))
    /\ IF Len(stream) = 0
          THEN pc' = "done" /\ exit' = 0 /\ fi' = fi
          ELSE pc' = "fetch" /\ exit' = exit /\ fi' = 1
    /\ UNCHANGED <<client, faithful, probe, options, stream, actions, rows>>

FlightsError ==
    /\ pc = "flights_iter"
    /\ log' = Append(log, Ev("error", "list_flights"))
    /\ Uncaught
    /\ UNCHANGED <<client, faithful, probe, options, stream, actions, rows,
                   flights, fi>>

TicketOf_last(f) == f.endpoints[Len(f.endpoints)].ticket

\* flight.endpoints[0].ticket
TicketOf(f) == f.endpoints[1].ticket

GetCall_noOptions(ticket) == Call("do_get", NoOptions, ticket)

\* client.do_get(ticket, options=options)
GetCall(ticket) == Call("do_get", options, ticket)

\* lines 49-51 for a flight that has an endpoint
DoGet ==
    /\ pc = "fetch"
    /\ Len(flights[fi].endpoints) > 0
    /\ log' = Append(log, GetCall(TicketOf(flights[fi])))
    /\ stream' = <<>>
    /\ pc' = "get_iter"
    /\ UNCHANGED <<client, faithful, probe, options, actions, rows, flights, fi, exit>>

\* line 49 for a flight with no endpoint: endpoints[0] raises IndexError
NoEndpoint ==
    /\ pc = "fetch"
    /\ Len(flights[fi].endpoints) = 0
    /\ Uncaught
    /\ UNCHANGED <<client, faithful, probe, options, log, stream, actions, rows,
                   flights, fi>>

\* for chunk, metadata in result: the chunk and its columns are printed
GetChunk ==
    /\ pc = "get_iter"
    /\ Len(stream) < MaxChunks
    /\ stream' = Append(stream, Len(stream) + 1)
    /\ UNCHANGED <<pc, client, faithful, probe, options, log, actions, rows,
                   flights, fi, exit>>

\* the stream of this flight is exhausted: next flight, or the end of the script
GetEnd ==
    /\ pc = "get_iter"
    /\ log' = Append(log, Ev("end", "do_get"))
    /\ IF fi < Len(flights)
          THEN pc' = "fetch" /\ fi' = fi + 1 /\ exit' = exit
          ELSE pc' = "done" /\ fi' = fi /\ exit' = 0
    /\ UNCHANGED <<client, faithful, probe, options, stream, actions, rows, flights>>

GetError_skip ==
    /\ pc = "get_iter"
    /\ log' = Append(log, Ev("error", "do_get"))
    /\ IF fi < Len(flights)
          THEN pc' = "fetch" /\ fi' = fi + 1 /\ exit' = exit
          ELSE pc' = "done" /\ fi' = fi /\ exit' = 0
    /\ UNCHANGED <<client, faithful, probe, options, stream, actions, rows, flights>>

\* do_get raises, at the call or while its stream is read: lines 51-52 are
\* in no try block
GetError ==
    /\ pc = "get_iter"
    /\ log' = Append(log, Ev("error", "do_get"))
    /\ Uncaught
    /\ UNCHANGED <<client, faithful, probe, options, stream, actions, rows,
                   flights, fi>>

Next ==
    \/ WaitForAvailable
    \/ ListActions
    \/ ActionsItem
    \/ ActionsEnd
    \/ ActionsError
    \/ DoAction
    \/ ActionRow
    \/ ActionEnd
    \/ ActionError
    \/ ListFlights
    \/ FlightsItem
    \/ FlightsEnd
    \/ FlightsError
    \/ DoGet
    \/ NoEndpoint
    \/ GetChunk
    \/ GetEnd
    \/ GetError

Spec == Init /\ [][Next]_vars

(***************************************************************************)
(* Vocabulary of the properties.                                           *)
(***************************************************************************)
Unauthenticated == "FlightUnauthenticatedError"

Terminated == pc \in {"done", "exited", "raised"}

\* positions in the log of the calls of one remote operation
CallsOf(op) == {i \in 1..Len(log) : log[i].kind = "call" /\ log[i].op = op}

\* positions in the log where an operation ended in the given way
EventsOf(kind, op) == {i \in 1..Len(log) : log[i].kind = kind /\ log[i].op = op}

AllCalls == {i \in 1..Len(log) : log[i].kind = "call"}

IsGet(e) == e.kind = "call" /\ e.op = "do_get"

\* the tickets passed to do_get, in the order of the calls
Redeemed == LET g == SelectSeq(log, IsGet) IN [i \in 1..Len(g) |-> g[i].arg]

\* b'neo4j' and b'password'
Username == <<110, 101, 111, 52, 106>>

Password == <<112, 97, 115, 115, 119, 111, 114, 100>>

B64Index(c) == CHOOSE i \in 0..63 : B64Char(i) = c

RECURSIVE b64decode(_)
b64decode(s) ==
    IF Len(s) < 4 THEN <<>>
    ELSE LET a == B64Index(s[1])
             b == B64Index(s[2])
         IN  IF s[3] = 61 THEN << a * 4 + b \div 16 >>
             ELSE IF s[4] = 61
                THEN << a * 4 + b \div 16, (b % 16) * 16 + B64Index(s[3]) \div 4 >>
                ELSE << a * 4 + b \div 16,
                        (b % 16) * 16 + B64Index(s[3]) \div 4,
                        (B64Index(s[3]) % 4) * 64 + B64Index(s[4]) >>
                     \o b64decode(SubSeq(s, 5, Len(s)))

\* the script's header is  authorization: Basic base64(username:password)
AuthOptionsAreBasic ==
    /\ Len(AuthOptions) = 1
    /\ LET h == AuthOptions[1]
       IN  /\ h[1] = HeaderName
           /\ Len(h[2]) > Len(BasicPrefix)
           /\ SubSeq(h[2], 1, Len(BasicPrefix)) = BasicPrefix
           /\ b64decode(SubSeq(h[2], Len(BasicPrefix) + 1, Len(h[2])))
                = Username \o <<58>> \o Password

\* the call carries that header
HasAuthHeader(c) ==
    /\ c.headers = AuthOptions
    /\ AuthOptionsAreBasic

(***************************************************************************)
(* C1.  A probe that fails with the authentication-required error does not *)
(* end the run: from then on the run is about to issue list_actions or has *)
(* issued it, as after a probe that succeeds; it never exits at the probe. *)
(***************************************************************************)
C1_AuthRequiredGoesOn ==
    probe \in {"ok", Unauthenticated} =>
        /\ pc # "probe"
        /\ pc = "list_actions" \/ CallsOf("list_actions") # {}
        /\ pc = "list_actions" => exit = -1

C1_Witness ==
    /\ probe = Unauthenticated
    /\ CallsOf("list_actions") # {}

(***************************************************************************)
(* C2.  A probe that fails with any other error ends the run with exit     *)
(* status 1, and no remote call other than the probe is in the run.        *)
(***************************************************************************)
C2_OtherProbeErrorIsFatal ==
    probe \in ProbeErrors \ {Unauthenticated} =>
        /\ pc = "exited"
        /\ exit = 1
        /\ AllCalls = CallsOf("wait_for_available")

C2_Witness ==
    /\ probe = "FlightTimedOutError"
    /\ pc = "exited"

(***************************************************************************)
(* C3.  When the action fails, at the call or in mid-stream, nothing more  *)
(* is consumed or called: the failure is the last event of the run, the    *)
(* run has exited with status 1, list_flights and do_get were never        *)
(* issued, and every record received before the failure was printed.       *)
(***************************************************************************)
C3_ActionFailureIsFatal ==
    EventsOf("error", "do_action") # {} =>
        /\ EventsOf("error", "do_action") = {Len(log)}
        /\ pc = "exited"
        /\ exit = 1
        /\ CallsOf("list_flights") = {}
        /\ CallsOf("do_get") = {}
        /\ rows = stream

C3_Witness ==
    /\ EventsOf("error", "do_action") # {}
    /\ Len(stream) >= 1
    /\ pc = "exited"

(***************************************************************************)
(* C4 as stated.  Every remote call of a run carries the header            *)
(* authorization: Basic base64(username:password).                         *)
(***************************************************************************)
C4_EveryCallAuthenticated ==
    \A i \in AllCalls : HasAuthHeader(log[i])

(***************************************************************************)
(* C4 as amended.  Every remote call other than the connectivity probe     *)
(* carries the header authorization: Basic base64(username:password); the  *)
(* probe, wait_for_available, is issued without any header.                *)
(***************************************************************************)
C4_EveryCallAfterProbeAuthenticated ==
    \A i \in AllCalls :
        IF log[i].op = "wait_for_available"
           THEN log[i].headers = NoOptions
           ELSE HasAuthHeader(log[i])

C4_Witness ==
    /\ CallsOf("list_actions") # {}
    /\ CallsOf("do_action") # {}
    /\ CallsOf("list_flights") # {}
    /\ CallsOf("do_get") # {}

(***************************************************************************)
(* C5 as stated.  Once the flights are listed and the run is over, every   *)
(* listed flight has had exactly one ticket redeemed, that of its first    *)
(* endpoint, in listing order.                                             *)
(***************************************************************************)
C5_EveryFlightRedeemed ==
    (Terminated /\ EventsOf("end", "list_flights") # {}) =>
        /\ Len(Redeemed) = Len(flights)
        /\ \A i \in 1..Len(flights) :
              /\ Len(flights[i].endpoints) >= 1
              /\ Redeemed[i] = flights[i].endpoints[1].ticket

(***************************************************************************)
(* C5 as amended.  The tickets passed to do_get are, in listing order, the *)
(* first-endpoint tickets of a leading part of the listed flights, one per *)
(* flight and never the ticket of a further endpoint; in a run that ends   *)
(* normally that leading part is the whole list.                           *)
(***************************************************************************)
C5_FirstEndpointOfPrefix ==
    /\ Len(Redeemed) <= Len(flights)
    /\ \A i \in 1..Len(Redeemed) :
          /\ Len(flights[i].endpoints) >= 1
          /\ Redeemed[i] = flights[i].endpoints[1].ticket
    /\ pc = "done" => Len(Redeemed) = Len(flights)

C5_Witness ==
    /\ pc = "done"
    /\ Len(flights) = 2
    /\ Len(flights[1].endpoints) = 2
    /\ Len(flights[2].endpoints) = 2
    /\ Len(Redeemed) = 2

(***************************************************************************)
(* C6.  The steps run in the order probe, list actions, invoke action,     *)
(* list flights and fetch, each after the previous one is complete:        *)
(* list_actions is called after the probe has returned, do_action after    *)
(* the action list is exhausted and bound to `actions`, list_flights after *)
(* the action stream is exhausted, do_get after the flight list is         *)
(* exhausted and bound to `flights`.                                       *)
(***************************************************************************)
ReturnedBefore(i, op) ==
    \E j \in 1..(i - 1) : log[j].op = op /\ log[j].kind = "end"

C6_StepsInOrder ==
    /\ \A i \in CallsOf("list_actions") :
          \E j \in 1..(i - 1) :
              /\ log[j].op = "wait_for_available"
              /\ log[j].kind \in {"end", "error"}
    /\ \A i \in CallsOf("do_action") : ReturnedBefore(i, "list_actions")
    /\ \A i \in CallsOf("list_flights") : ReturnedBefore(i, "do_action")
    /\ \A i \in CallsOf("do_get") : ReturnedBefore(i, "list_flights")
    /\ pc \in {"probe", "list_actions", "actions_iter"} => actions = <<>>
    /\ pc \in {"probe", "list_actions", "actions_iter", "do_action",
               "action_iter", "list_flights", "flights_iter"} => flights = <<>>

C6_Witness ==
    /\ CallsOf("do_get") # {}
    /\ Len(rows) >= 2
    /\ Len(actions) >= 1

(***************************************************************************)
(* C7.  Nothing is retried: wait_for_available, list_actions, do_action    *)
(* and list_flights are each called at most once in a run, and do_get at   *)
(* most once for each listed flight, whether or not the call failed.       *)
(***************************************************************************)
C7_NoRetry ==
    /\ \A op \in {"wait_for_available", "list_actions", "do_action", "list_flights"} :
          Cardinality(CallsOf(op)) <= 1
    /\ Len(Redeemed) <= Len(flights)
    /\ \A i, j \in 1..Len(Redeemed) : Redeemed[i][1] = Redeemed[j][1] => i = j

C7_Witness ==
    /\ Terminated
    /\ EventsOf("error", "do_action") # {}
    /\ Cardinality(CallsOf("do_action")) = 1

(***************************************************************************)
(* C8.  An empty listing is no error: after list_actions returned no       *)
(* action the run is about to call do_action or has called it, and after   *)
(* list_flights returned no flight the run has ended with exit status 0    *)
(* without any do_get.                                                     *)
(***************************************************************************)
C8_EmptyListingIsNoError ==
    /\ (EventsOf("end", "list_actions") # {} /\ actions = <<>>) =>
          (pc = "do_action" /\ exit = -1) \/ CallsOf("do_action") # {}
    /\ (EventsOf("end", "list_flights") # {} /\ flights = <<>>) =>
          /\ pc = "done"
          /\ exit = 0
          /\ CallsOf("do_get") = {}

C8_Witness ==
    /\ EventsOf("end", "list_actions") # {}
    /\ actions = <<>>
    /\ EventsOf("end", "list_flights") # {}
    /\ flights = <<>>

(***************************************************************************)
(* C9 as stated.  The run targets ("127.0.0.1", 9999) with the credential  *)
(* neo4j/password and invokes cypherRead with the payload                  *)
(* "UNWIND range(1,3) AS n RETURN n"; a faithful server's result stream is *)
(* the 3 records n = 1, 2, 3, consumed in that order.                      *)
(***************************************************************************)
C9_Range3At127 ==
    \A i \in CallsOf("do_action") :
        /\ log[i].target = location_spec
        /\ log[i].arg = action_spec
        /\ HasAuthHeader(log[i])
        /\ (faithful /\ EventsOf("end", "do_action") # {}) => rows = <<1, 2, 3>>

(***************************************************************************)
(* C9 as amended.  The run targets ("192.168.1.42", 9999) with the         *)
(* credential neo4j/password and invokes cypherRead with the payload       *)
(* "UNWIND range(1, 23) AS n RETURN n"; a faithful server's result stream  *)
(* is the 23 records n = 1, 2, ..., 23, consumed in that order.            *)
(***************************************************************************)
C9_Range23At192 ==
    \A i \in CallsOf("do_action") :
        /\ log[i].target = <<"192.168.1.42", 9999>>
        /\ log[i].arg[1] = "cypherRead"
        /\ log[i].arg[2] =
              <<85, 78, 87, 73, 78, 68, 32, 114, 97, 110, 103, 101, 40, 49, 44,
                32, 50, 51, 41, 32, 65, 83, 32, 110, 32, 82, 69, 84, 85, 82, 78,
                32, 110>>
        /\ HasAuthHeader(log[i])
        /\ faithful => /\ Len(rows) <= 23
                       /\ \A n \in 1..Len(rows) : rows[n] = n
        /\ (faithful /\ EventsOf("end", "do_action") # {}) => Len(rows) = 23

C9_Witness ==
    /\ faithful
    /\ EventsOf("end", "do_action") # {}
    /\ Len(rows) = 23

(***************************************************************************)
(* C10.  A failure of list_actions, of list_flights or of a fetch (do_get  *)
(* or its stream, or a listed flight without endpoint) is neither handled  *)
(* nor retried: it is the last thing the run does, the run ends with an    *)
(* uncaught error, and the flights listed after the one whose fetch failed *)
(* are never fetched.                                                      *)
(***************************************************************************)
C10_UnhandledFailureHalts ==
    /\ \A i \in 1..Len(log) :
          (log[i].kind = "error" /\ log[i].op \in {"list_actions", "list_flights", "do_get"})
              => /\ i = Len(log)
                 /\ pc = "raised"
                 /\ exit = 1
    /\ EventsOf("error", "list_actions") # {} => CallsOf("do_action") = {}
    /\ EventsOf("error", "do_get") # {} => Len(Redeemed) = fi
    /\ \A k \in 1..Len(flights) :
          (Len(flights[k].endpoints) = 0 /\ (fi > k \/ (fi = k /\ pc # "fetch"))) =>
              /\ fi = k
              /\ pc = "raised"
              /\ exit = 1
              /\ Len(Redeemed) = k - 1

C10_Witness ==
    /\ pc = "raised"
    /\ EventsOf("error", "do_get") # {}
    /\ fi = 1
    /\ Len(flights) = 2
    /\ Len(stream) = 1

====
